---- MODULE Spec2Model ----
(***************************************************************************)
(* M-PESA STK push subscription server: /subscribe starts a push payment   *)
(* and records the subscriber in the in-memory `pending` store; /callback  *)
(* receives the gateway's report and enrols the subscriber in MailerLite.  *)
(*                                                                         *)
(* The repository holds three variants of the server:                      *)
(*   "token"     src/server.js lines 1-249   (callback token validation)   *)
(*   "allowlist" src/server.js lines 251-460 (SAFE_IPS + Telegram alerts)  *)
(*   "logged"    src/unnamed/part_000        (verbose logging variant)     *)
(* One behaviour of the model runs one variant, chosen in Init.            *)
(* Every await of a handler is a step boundary: the code between two       *)
(* awaits runs atomically on the event loop and is one action.             *)
(***************************************************************************)
EXTENDS Integers, Sequences, FiniteSets, TLC

\* ------------------------------------------------------------------ bounds
MaxReqs == 1      \* /subscribe requests in one behaviour
MaxCbs  == 2      \* /callback deliveries in one behaviour
MaxTime == 1      \* largest timestamp Date.now() returns

Reqs == 1..MaxReqs
Cbs  == 1..MaxCbs

Variants == {"token", "allowlist", "logged"}

\* ------------------------------------------------------- JavaScript values
Undefined == "undefined"
Truthy(x) == x # Undefined /\ x # ""

\* A string that the code transforms is a sequence of characters.
UNDEF == [t |-> "undef", v |-> <<>>]
Str(s) == [t |-> "str", v |-> s]
TruthyStr(x) == x.t = "str" /\ Len(x.v) > 0

LowerChars == <<"a","b","c","d","e","f","g","h","i","j","k","l","m",
                "n","o","p","q","r","s","t","u","v","w","x","y","z">>
UpperChars == <<"A","B","C","D","E","F","G","H","I","J","K","L","M",
                "N","O","P","Q","R","S","T","U","V","W","X","Y","Z">>
Digits == {"0","1","2","3","4","5","6","7","8","9"}
UpperSet == {UpperChars[i] : i \in DOMAIN UpperChars}

toUpperCaseChar(c) ==
  IF \E i \in DOMAIN LowerChars : LowerChars[i] = c
    THEN UpperChars[CHOOSE i \in DOMAIN LowerChars : LowerChars[i] = c]
    ELSE c

\* String.prototype.toUpperCase
toUpperCase(s) == [i \in DOMAIN s |-> toUpperCaseChar(s[i])]

\* s.replace(/[^A-Z0-9]/g, "_")
replaceNonAlnum(s) ==
  [i \in DOMAIN s |-> IF s[i] \in UpperSet \cup Digits THEN s[i] ELSE "_"]

\* the suffix of the MAILERLITE_GROUP_<...> environment key of an industry
groupKey(industry) == replaceNonAlnum(toUpperCase(industry))

\* ------------------------------------------------------------ environment
\* process.env: read-only configuration, fixed at startup.
GroupVars == [k \in {<<"R","E","T","A","I","L">>, <<"I","T","_","J","O","B","S">>}
               |-> IF k[1] = "R" THEN "g_retail" ELSE "g_it"]

Envs ==
  { [CALLBACK_TOKEN |-> "s3cret", MAILERLITE_DEFAULT_GROUP |-> "g_default",
     groups |-> GroupVars, consumer |-> TRUE, shortcode |-> TRUE, telegram |-> TRUE],
    [CALLBACK_TOKEN |-> Undefined, MAILERLITE_DEFAULT_GROUP |-> Undefined,
     groups |-> GroupVars, consumer |-> TRUE, shortcode |-> TRUE, telegram |-> FALSE],
    [CALLBACK_TOKEN |-> "s3cret", MAILERLITE_DEFAULT_GROUP |-> "g_default",
     groups |-> GroupVars, consumer |-> FALSE, shortcode |-> FALSE, telegram |-> TRUE] }

\* process.env[key] || process.env.MAILERLITE_DEFAULT_GROUP
groupIdOf(e, industry) ==
  IF groupKey(industry) \in DOMAIN e.groups
    THEN e.groups[groupKey(industry)]
    ELSE e.MAILERLITE_DEFAULT_GROUP

\* -------------------------------------------------------------------- keys
\* genRef(): "REF-" + 12 random hex digits, one fresh reference per request.
genRef(r) == <<"REF", r>>
\* the CheckoutRequestID the gateway issues for the push request of r
CheckoutID(r) == <<"ws", r>>
UnknownKey == <<"ws", 0>>
NoKey == <<"none", 0>>
AllKeys == {genRef(r) : r \in Reqs} \cup {CheckoutID(r) : r \in Reqs} \cup {UnknownKey}

\* ------------------------------------------------------------------ inputs
\* req.body of /subscribe
Bodies ==
  { [name |-> "A", email |-> "a@x.com", phone |-> "2547", industry |-> Str(<<"i","t","-","j","o","b","s">>)],
    [name |-> "C", email |-> "c@x.com", phone |-> "2547", industry |-> Str(<<"l","a","w">>)],
    [name |-> "D", email |-> "d@x.com", phone |-> "2547", industry |-> UNDEF],
    [name |-> "E", email |-> "e@x.com", phone |-> Undefined, industry |-> Str(<<"l","a","w">>)] }

VARIABLES
  variant,   \* which server file runs
  env,       \* process.env
  pending,   \* the pending store: key -> object (the request that created it)
  heap,      \* the record objects: object -> fields
  sub,       \* the /subscribe handlers
  cb         \* the /callback handlers

vars == <<variant, env, pending, heap, sub, cb>>


\* ------------------------------------------------------------ store helpers
Has(p, k) == k \in DOMAIN p
\* pending[k] = o
Put(p, k, o) == [x \in DOMAIN p \cup {k} |-> IF x = k THEN o ELSE p[x]]
\* delete pending[k]
Delete(p, k) == [x \in DOMAIN p \ {k} |-> p[x]]

\* Date.now(): a timestamp no earlier than any already stamped
DateNow(h) == {t \in 0..MaxTime : \A o \in DOMAIN h : h[o].createdAt <= t}

\* { name, email, phone, industry, createdAt: Date.now() }
NewEntry(body, t) ==
  [name |-> body.name, email |-> body.email, phone |-> body.phone,
   industry |-> body.industry, createdAt |-> t, originalRef |-> NoKey]

NoBody == [name |-> Undefined, email |-> Undefined, phone |-> Undefined, industry |-> UNDEF]
NoResp == [code |-> 0, status |-> "", reference |-> NoKey, ticket |-> NoKey]
SubResp(code, status, reference, ticket) ==
  [code |-> code, status |-> status, reference |-> reference, ticket |-> ticket]

\* if (!name || !email || !phone || !industry)
MissingFields(body) ==
  ~Truthy(body.name) \/ ~Truthy(body.email) \/ ~Truthy(body.phone) \/ ~TruthyStr(body.industry)

\* ---------------------------------------------------------------- gateway
OAuthOutcomes == {"ok", "denied", "garbled", "neterr"}
StkOutcomes == {"accepted", "rejected", "garbled", "neterr"}

\* getMpesaToken(): the access token, Undefined, or "throw".
\* The token variant reads data.access_token without looking at res.ok.
getMpesaToken(v, outcome) ==
  CASE outcome = "ok" -> "tok"
    [] outcome = "denied" -> IF v = "token" THEN Undefined ELSE "throw"
    [] OTHER -> "throw"

\* ------------------------------------------------------------- /subscribe
\* request slots are taken in order
SubIdle(r) == sub[r].pc = "idle" /\ (IF r = 1 THEN TRUE ELSE sub[r - 1].pc # "idle")

SubDone(r, resp) == [sub EXCEPT ![r].pc = "done", ![r].resp = resp]

\* src/server.js:63-70: store under the local reference, then await the token.
SubscribeToken(r) ==
  /\ variant = "token"
  /\ SubIdle(r)
  /\ \E body \in Bodies, now \in DateNow(heap) :
       /\ heap' = Put(heap, r, NewEntry(body, now))
       /\ pending' = Put(pending, genRef(r), r)
       /\ sub' = [sub EXCEPT ![r].pc = "oauth", ![r].body = body,
                             ![r].accountRef = genRef(r)]
  /\ UNCHANGED <<variant, env, cb>>

\* src/server.js:360-368: validate, then await the token; nothing is stored yet.
SubscribeAllowlist(r) ==
  /\ variant = "allowlist"
  /\ SubIdle(r)
  /\ \E body \in Bodies :
       IF MissingFields(body)
         THEN sub' = [SubDone(r, SubResp(400, "Missing required fields", NoKey, NoKey))
                        EXCEPT ![r].body = body]
         ELSE IF ~env.consumer
           THEN sub' = [SubDone(r, SubResp(500, "Failed to initiate payment", NoKey, NoKey))
                          EXCEPT ![r].body = body, ![r].accountRef = genRef(r)]
           ELSE sub' = [sub EXCEPT ![r].pc = "oauth", ![r].body = body,
                                   ![r].accountRef = genRef(r)]
  /\ UNCHANGED <<variant, env, pending, heap, cb>>

\* src/unnamed/part_000:107-127: validate, store under the local reference,
\* check the short code and passkey, then await the token.
SubscribeLogged(r) ==
  /\ variant = "logged"
  /\ SubIdle(r)
  /\ \E body \in Bodies, now \in DateNow(heap) :
       IF MissingFields(body)
         THEN /\ sub' = [SubDone(r, SubResp(400, "Missing required fields", NoKey, NoKey))
                           EXCEPT ![r].body = body]
              /\ UNCHANGED <<pending, heap>>
         ELSE /\ heap' = Put(heap, r, NewEntry(body, now))
              /\ pending' = Put(pending, genRef(r), r)
              /\ IF ~env.shortcode
                   THEN sub' = [SubDone(r, SubResp(500, "MPESA_SHORTCODE or MPESA_PASSKEY not set",
                                                   NoKey, NoKey))
                                  EXCEPT ![r].body = body, ![r].accountRef = genRef(r)]
                   ELSE IF ~env.consumer
                     THEN sub' = [SubDone(r, SubResp(500, "Failed to initiate payment", NoKey, NoKey))
                                    EXCEPT ![r].body = body, ![r].accountRef = genRef(r)]
                     ELSE sub' = [sub EXCEPT ![r].pc = "oauth", ![r].body = body,
                                             ![r].accountRef = genRef(r)]
  /\ UNCHANGED <<variant, env, cb>>

\* The OAuth fetch settles: getMpesaToken returns or throws; on a token the
\* handler builds the payload and issues the STK push request.
OAuthReturn(r) ==
  /\ sub[r].pc = "oauth"
  /\ \E o \in OAuthOutcomes :
       /\ o = "ok" => env.consumer
       /\ LET t == getMpesaToken(variant, o) IN
            IF t = "throw"
              THEN sub' = SubDone(r, SubResp(500, "Failed to initiate payment", NoKey, NoKey))
              ELSE sub' = [sub EXCEPT ![r].pc = "stk", ![r].token = t]
  /\ UNCHANGED <<variant, env, pending, heap, cb>>

\* The gateway answers the push request. It accepts only a well-formed,
\* authorised request, and an accepted request is given CheckoutID(r): from
\* here on the gateway may deliver callbacks for it.
GatewayStk(r) ==
  /\ sub[r].pc = "stk"
  /\ \E o \in StkOutcomes :
       /\ o = "accepted" => Truthy(sub[r].token) /\ env.shortcode /\ Truthy(sub[r].body.phone)
       /\ sub' = [sub EXCEPT ![r].pc = "sent", ![r].stk = o]
  /\ UNCHANGED <<variant, env, pending, heap, cb>>

\* src/server.js:104-128: parse leniently; alias the record under the
\* CheckoutRequestID (the old key is kept) and note originalRef on it.
ResumeToken(r) ==
  /\ variant = "token"
  /\ sub[r].pc = "sent"
  /\ LET R == sub[r].accountRef
         T == CheckoutID(r) IN
       CASE sub[r].stk = "neterr" ->
              /\ sub' = SubDone(r, SubResp(500, "Failed to initiate payment", NoKey, NoKey))
              /\ UNCHANGED <<pending, heap>>
         [] sub[r].stk = "accepted" /\ Has(pending, R) ->
              /\ pending' = Put(pending, T, pending[R])
              /\ heap' = [heap EXCEPT ![pending[R]].originalRef = R]
              /\ sub' = SubDone(r, SubResp(200, "pending", R, T))
         [] sub[r].stk = "accepted" /\ ~Has(pending, R) ->
              \* pending[T] = undefined; undefined.originalRef throws
              /\ sub' = SubDone(r, SubResp(500, "Failed to initiate payment", NoKey, NoKey))
              /\ UNCHANGED <<pending, heap>>
         [] OTHER ->
              /\ sub' = SubDone(r, SubResp(200, "pending", R, NoKey))
              /\ UNCHANGED <<pending, heap>>
  /\ UNCHANGED <<variant, env, cb>>

\* src/server.js:402-419: JSON.parse may throw; the record is created only
\* now, under the CheckoutRequestID.
ResumeAllowlist(r) ==
  /\ variant = "allowlist"
  /\ sub[r].pc = "sent"
  /\ LET T == CheckoutID(r) IN
       CASE sub[r].stk \in {"neterr", "garbled"} ->
              /\ sub' = SubDone(r, SubResp(500, "Failed to initiate payment", NoKey, NoKey))
              /\ UNCHANGED <<pending, heap>>
         [] sub[r].stk = "accepted" ->
              /\ \E now \in DateNow(heap) :
                   heap' = Put(heap, r, NewEntry(sub[r].body, now))
              /\ pending' = Put(pending, T, r)
              /\ sub' = SubDone(r, SubResp(200, "pending", NoKey, T))
         [] OTHER ->
              /\ sub' = SubDone(r, SubResp(200, "pending", NoKey, NoKey))
              /\ UNCHANGED <<pending, heap>>
  /\ UNCHANGED <<variant, env, cb>>

\* src/unnamed/part_000:163-203: parse leniently; the store is not touched.
ResumeLogged(r) ==
  /\ variant = "logged"
  /\ sub[r].pc = "sent"
  /\ IF sub[r].stk = "neterr"
       THEN sub' = SubDone(r, SubResp(500, "Failed to initiate payment", NoKey, NoKey))
       ELSE sub' = SubDone(r, SubResp(200, "pending", sub[r].accountRef,
                                      IF sub[r].stk = "accepted" THEN CheckoutID(r) ELSE NoKey))
  /\ UNCHANGED <<variant, env, pending, heap, cb>>


\* ----------------------------------------------------- /callback requests
\* src/server.js:270-282
SAFE_IPS ==
  { "196.201.214.206", "196.201.213.114", "196.201.214.207", "196.201.214.208",
    "196.201.213.44", "196.201.212.127", "196.201.212.138", "196.201.212.129",
    "196.201.212.136", "196.201.212.74", "196.201.212.69" }

\* (x-forwarded-for entries, socket address) of the requests drawn
Origins ==
  { [xff |-> <<>>, socket |-> "196.201.214.206"],
    [xff |-> <<"10.0.0.9", "196.201.214.206">>, socket |-> "196.201.214.206"],
    [xff |-> <<"196.201.213.44", "10.0.0.9">>, socket |-> "10.0.0.9"] }
NoOrigin == [xff |-> <<>>, socket |-> Undefined]

\* req.query.token values drawn
Tokens == {"s3cret", "wrong", Undefined}

\* A body without Body.stkCallback carries none of the callback fields.
MalformedBody ==
  [hasStk |-> FALSE, ResultCode |-> -1, CheckoutRequestID |-> NoKey,
   AccountReference |-> NoKey, PhoneNumber |-> Undefined]

StkBodies(accountRefs, phones) ==
  [hasStk : {TRUE}, ResultCode : {0, 1032}, CheckoutRequestID : AllKeys,
   AccountReference : accountRefs, PhoneNumber : phones]

\* The requests drawn for each variant: a field the variant never reads is
\* left out of the enumeration (fixed to its absent value).
CbBodies(v) ==
  CASE v = "token" -> {MalformedBody} \cup StkBodies({NoKey}, {Undefined, "254700"})
    [] v = "allowlist" -> {MalformedBody} \cup StkBodies({NoKey}, {Undefined})
    [] OTHER -> {MalformedBody}
                \cup StkBodies({NoKey, UnknownKey} \cup {genRef(r) : r \in Reqs},
                               {Undefined, "254700"})

CbTokens(v) == IF v = "token" THEN Tokens ELSE {Undefined}
CbOrigins(v) == IF v = "allowlist" THEN Origins ELSE {NoOrigin}

NoReq == [token |-> Undefined, body |-> MalformedBody, origin |-> NoOrigin]
NoAck == [code |-> 0, shape |-> "", text |-> ""]
\* res.status(200).json({ ResultCode: 0, ResultDesc: text })
Ack(text) == [code |-> 200, shape |-> "ResultCode", text |-> text]
\* res.status(200).json({ result: text })
Result(text) == [code |-> 200, shape |-> "result", text |-> text]

IdleCb ==
  [pc |-> "idle", req |-> NoReq, key |-> NoKey, obj |-> 0, groupId |-> Undefined,
   payerPhone |-> Undefined, calls |-> <<>>, found |-> "none", failed |-> FALSE,
   alerts |-> 0, resp |-> NoAck, parsed |-> TRUE, prev |-> {}, subs |-> {}]

\* handler slots are taken in order
CbIdle(c) == cb[c].pc = "idle" /\ (IF c = 1 THEN TRUE ELSE cb[c - 1].pc # "idle")

\* What is kept of a delivery for stating properties: the request as far as
\* the handler uses it before its lookup (the PhoneNumber item is kept in
\* payerPhone once a record is found), and which handlers had finished when
\* this one was entered.
Enter(c, req) ==
  [IdleCb EXCEPT !.req = [req EXCEPT !.body.PhoneNumber = Undefined],
                 !.prev = {d \in Cbs : cb[d].pc = "done"},
                 !.subs = {r \in Reqs : sub[r].pc = "done"}]

Finish(h, resp) == [h EXCEPT !.pc = "done", !.resp = resp]

\* (mutant) the absent token is not rejected before the comparison
validateTokenLoose(e, token) == token = e.CALLBACK_TOKEN

\* src/server.js:53-59
validateSafaricomCallback(e, token) ==
  IF ~Truthy(token) THEN FALSE ELSE token = e.CALLBACK_TOKEN

\* src/server.js:425-427: first x-forwarded-for entry, else the socket address
clientIp(origin) ==
  IF Len(origin.xff) > 0 /\ Truthy(origin.xff[1]) THEN origin.xff[1] ELSE origin.socket

\* (mutant) the CheckoutRequestID is preferred to the AccountReference item
callbackKeyCheckoutFirst(v, body) ==
  IF body.CheckoutRequestID # NoKey THEN body.CheckoutRequestID ELSE body.AccountReference

\* the key a handler looks up
\*   token, allowlist: stkCallback.CheckoutRequestID
\*   logged:           accountRefItem?.Value || stkCallback?.CheckoutRequestID
callbackKey(v, body) ==
  IF v = "logged" /\ body.AccountReference # NoKey
    THEN body.AccountReference
    ELSE body.CheckoutRequestID

\* (mutant) the result code is not looked at
MatchedAnyCode(p, body, key) == key # NoKey /\ Has(p, key)

\* if (resultCode === 0 && accountRef && pending[accountRef])
Matched(p, body, key) == body.ResultCode = 0 /\ key # NoKey /\ Has(p, key)


\* ------------------------------------------------- MailerLite enrol workflow
FindOutcomes == {"absent", "member", "other", "throw"}
CallOutcomes == {"ok", "throw"}

\* The handler has found entry o under key. It destructures the entry and
\* builds the group key: industry.toUpperCase() throws on an undefined
\* industry, which the handler's outer catch answers. The logged variant sets
\* mlPayload.groups only for a truthy groupId and reads mlPayload.groups[0]
\* inside the inner try. Otherwise the subscriber lookup is issued.
BeginEnrol(v, e, h, o, key, phone) ==
  LET h1 == [h EXCEPT !.obj = o, !.key = key, !.payerPhone = phone] IN
    IF heap[o].industry.t # "str"
      THEN Finish(h1, Ack("Error handled"))
      ELSE LET g == groupIdOf(e, heap[o].industry.v)
               h2 == [h1 EXCEPT !.groupId = g] IN
             IF v = "logged" /\ ~Truthy(g)
               THEN Finish(h2, Ack("Processed"))
               ELSE [h2 EXCEPT !.pc = "find", !.calls = Append(@, "find")]

\* the inner try/catch is left and `delete pending[accountRef]` runs exactly
\* when the handler answers "Processed"
DeleteIfProcessed(h) ==
  IF h.pc = "done" /\ h.resp = Ack("Processed") THEN Delete(pending, h.key) ELSE pending

\* (mutant) the add is issued whatever the lookup reported
AfterFindAddOnly(h, outcome) ==
  LET f == [h EXCEPT !.found = outcome] IN
    IF outcome = "throw"
      THEN Finish([f EXCEPT !.failed = TRUE], Ack("Processed"))
      ELSE [f EXCEPT !.pc = "add", !.calls = Append(@, "add")]

\* the subscriber lookup settles: remove first when already in the group,
\* else add; an exception goes to the inner catch. `found` keeps what the
\* lookup reported and `failed` that a downstream call threw.
AfterFind(h, outcome) ==
  LET f == [h EXCEPT !.found = outcome] IN
    CASE outcome = "throw" -> Finish([f EXCEPT !.failed = TRUE], Ack("Processed"))
      [] outcome = "member" -> [f EXCEPT !.pc = "remove", !.calls = Append(@, "remove")]
      [] OTHER -> [f EXCEPT !.pc = "add", !.calls = Append(@, "add")]

\* the DELETE settles: the add is issued next
AfterRemove(h, outcome) ==
  IF outcome = "throw"
    THEN Finish([h EXCEPT !.failed = TRUE], Ack("Processed"))
    ELSE [h EXCEPT !.pc = "add", !.calls = Append(@, "add")]

\* the POST settles, or throws into the inner catch: either way the inner
\* try/catch is left
AfterAdd(h, outcome) ==
  Finish([h EXCEPT !.failed = (outcome = "throw")], Ack("Processed"))

\* ------------------------------------------------------ /callback (token)
\* src/server.js:185-213, up to the first await
CallbackToken(c) ==
  /\ variant = "token"
  /\ CbIdle(c)
  /\ \E token \in CbTokens(variant), body \in CbBodies(variant) :
       LET req == [token |-> token, body |-> body, origin |-> NoOrigin]
           h == Enter(c, req)
           key == callbackKey(variant, body) IN
         /\ cb' = [cb EXCEPT ![c] =
              IF ~validateSafaricomCallback(env, token)
                THEN Finish([h EXCEPT !.req.body = MalformedBody, !.parsed = FALSE],
                            Ack("Invalid token"))
              ELSE IF ~body.hasStk
                THEN Finish(h, Result("no-callback"))
              ELSE IF Matched(pending, body, key)
                THEN BeginEnrol(variant, env, h, pending[key], key, body.PhoneNumber)
              ELSE Finish([h EXCEPT !.key = key], Ack("No action taken"))]
         /\ pending' = DeleteIfProcessed(cb'[c])
  /\ UNCHANGED <<variant, env, heap, sub>>

\* src/server.js:217-225
FindReturnToken(c) ==
  /\ variant = "token"
  /\ cb[c].pc = "find"
  /\ \E o \in FindOutcomes :
       /\ o = "member" => Truthy(cb[c].groupId)
       /\ cb' = [cb EXCEPT ![c] = AfterFind(cb[c], o)]
  /\ pending' = DeleteIfProcessed(cb'[c])
  /\ UNCHANGED <<variant, env, heap, sub>>

\* src/server.js:223-228
RemoveReturnToken(c) ==
  /\ variant = "token"
  /\ cb[c].pc = "remove"
  /\ \E o \in CallOutcomes : cb' = [cb EXCEPT ![c] = AfterRemove(cb[c], o)]
  /\ pending' = DeleteIfProcessed(cb'[c])
  /\ UNCHANGED <<variant, env, heap, sub>>

\* src/server.js:228-235
AddReturnToken(c) ==
  /\ variant = "token"
  /\ cb[c].pc = "add"
  /\ \E o \in CallOutcomes : cb' = [cb EXCEPT ![c] = AfterAdd(cb[c], o)]
  /\ pending' = DeleteIfProcessed(cb'[c])
  /\ UNCHANGED <<variant, env, heap, sub>>

\* ----------------------------------------------------- /callback (logged)
\* src/unnamed/part_000:209-273, up to the first await
CallbackLogged(c) ==
  /\ variant = "logged"
  /\ CbIdle(c)
  /\ \E body \in CbBodies(variant) :
       LET req == [token |-> Undefined, body |-> body, origin |-> NoOrigin]
           h == Enter(c, req)
           key == callbackKey(variant, body) IN
         /\ cb' = [cb EXCEPT ![c] =
              IF ~body.hasStk
                THEN Finish(h, Result("no-stk-callback-present"))
              ELSE IF Matched(pending, body, key)
                THEN BeginEnrol(variant, env, h, pending[key], key, body.PhoneNumber)
              ELSE Finish([h EXCEPT !.key = key], Ack("No action taken"))]
         /\ pending' = DeleteIfProcessed(cb'[c])
  /\ UNCHANGED <<variant, env, heap, sub>>

\* src/unnamed/part_000:273-318
FindReturnLogged(c) ==
  /\ variant = "logged"
  /\ cb[c].pc = "find"
  /\ \E o \in FindOutcomes : cb' = [cb EXCEPT ![c] = AfterFind(cb[c], o)]
  /\ pending' = DeleteIfProcessed(cb'[c])
  /\ UNCHANGED <<variant, env, heap, sub>>

\* src/unnamed/part_000:312-331
RemoveReturnLogged(c) ==
  /\ variant = "logged"
  /\ cb[c].pc = "remove"
  /\ \E o \in CallOutcomes : cb' = [cb EXCEPT ![c] = AfterRemove(cb[c], o)]
  /\ pending' = DeleteIfProcessed(cb'[c])
  /\ UNCHANGED <<variant, env, heap, sub>>

\* src/unnamed/part_000:324-343
AddReturnLogged(c) ==
  /\ variant = "logged"
  /\ cb[c].pc = "add"
  /\ \E o \in CallOutcomes : cb' = [cb EXCEPT ![c] = AfterAdd(cb[c], o)]
  /\ pending' = DeleteIfProcessed(cb'[c])
  /\ UNCHANGED <<variant, env, heap, sub>>

\* -------------------------------------------------- /callback (allowlist)
\* src/server.js:284-301: nothing is sent without the bot token and chat id
sendTelegramAlert(e, h) ==
  IF e.telegram THEN [h EXCEPT !.alerts = @ + 1] ELSE h

\* src/server.js:435-445: the record is deleted; nobody is enrolled
Reconcile(h, body) ==
  LET key == callbackKey("allowlist", body) IN
    IF ~body.hasStk
      THEN Finish(h, Result("no-stk-callback"))
      ELSE IF Matched(pending, body, key)
        THEN Finish([h EXCEPT !.key = key, !.obj = pending[key]], Ack("Processed"))
        ELSE Finish([h EXCEPT !.key = key], Ack("Processed"))

ReconcileStore(h) == IF h.obj # 0 THEN Delete(pending, h.key) ELSE pending

\* src/server.js:423-449: an origin outside SAFE_IPS is alerted, and the
\* handler awaits the alert before it looks at the body
CallbackAllowlist(c) ==
  /\ variant = "allowlist"
  /\ CbIdle(c)
  /\ \E origin \in CbOrigins(variant), body \in CbBodies(variant) :
       LET req == [token |-> Undefined, body |-> body, origin |-> origin]
           h == Enter(c, req)
           ip == clientIp(origin) IN
         IF Truthy(ip) /\ ip \notin SAFE_IPS /\ env.telegram
           THEN /\ cb' = [cb EXCEPT ![c] = [sendTelegramAlert(env, h) EXCEPT !.pc = "alert"]]
                /\ UNCHANGED pending
           ELSE /\ cb' = [cb EXCEPT ![c] = Reconcile(h, body)]
                /\ pending' = ReconcileStore(cb'[c])
  /\ UNCHANGED <<variant, env, heap, sub>>

\* the Telegram request settles (its failure is swallowed)
AlertReturn(c) ==
  /\ variant = "allowlist"
  /\ cb[c].pc = "alert"
  /\ cb' = [cb EXCEPT ![c] = Reconcile(cb[c], cb[c].req.body)]
  /\ pending' = ReconcileStore(cb'[c])
  /\ UNCHANGED <<variant, env, heap, sub>>

\* ------------------------------------------------------------ specification
Init ==
  /\ variant \in Variants
  /\ env \in Envs
  /\ pending = <<>>
  /\ heap = <<>>
  /\ sub = [r \in Reqs |-> [pc |-> "idle", body |-> NoBody, accountRef |-> NoKey,
                            token |-> Undefined, stk |-> "none", resp |-> NoResp]]
  /\ cb = [c \in Cbs |-> IdleCb]

Next ==
  \/ \E r \in Reqs : SubscribeToken(r)
  \/ \E r \in Reqs : SubscribeAllowlist(r)
  \/ \E r \in Reqs : SubscribeLogged(r)
  \/ \E r \in Reqs : OAuthReturn(r)
  \/ \E r \in Reqs : GatewayStk(r)
  \/ \E r \in Reqs : ResumeToken(r)
  \/ \E r \in Reqs : ResumeAllowlist(r)
  \/ \E r \in Reqs : ResumeLogged(r)
  \/ \E c \in Cbs : CallbackToken(c)
  \/ \E c \in Cbs : FindReturnToken(c)
  \/ \E c \in Cbs : RemoveReturnToken(c)
  \/ \E c \in Cbs : AddReturnToken(c)
  \/ \E c \in Cbs : CallbackLogged(c)
  \/ \E c \in Cbs : FindReturnLogged(c)
  \/ \E c \in Cbs : RemoveReturnLogged(c)
  \/ \E c \in Cbs : AddReturnLogged(c)
  \/ \E c \in Cbs : CallbackAllowlist(c)
  \/ \E c \in Cbs : AlertReturn(c)

Spec == Init /\ [][Next]_vars


\* The steps the event loop schedules by itself: a handler resumes once what
\* it awaits has settled. The arrival of requests and deliveries is up to
\* the clients and the gateway, and no fairness is assumed of it.
Continue ==
  \/ \E r \in Reqs : OAuthReturn(r) \/ GatewayStk(r)
  \/ \E r \in Reqs : ResumeToken(r) \/ ResumeAllowlist(r) \/ ResumeLogged(r)
  \/ \E c \in Cbs : FindReturnToken(c) \/ RemoveReturnToken(c) \/ AddReturnToken(c)
  \/ \E c \in Cbs : FindReturnLogged(c) \/ RemoveReturnLogged(c) \/ AddReturnLogged(c)
  \/ \E c \in Cbs : AlertReturn(c)

FairSpec == Spec /\ WF_vars(Continue)

\* The continuations of /subscribe only. The alert request and the
\* MailerLite requests of /callback are issued without a timeout or an abort
\* signal, so a handler awaiting one resumes only if the peer answers: of
\* those steps nothing is assumed.
GatewayContinue ==
  \/ \E r \in Reqs : OAuthReturn(r) \/ GatewayStk(r)
  \/ \E r \in Reqs : ResumeToken(r) \/ ResumeAllowlist(r) \/ ResumeLogged(r)

SilentPeerSpec == Spec /\ WF_vars(GatewayContinue)

\* ------------------------------------------------------ notions for claims
\* the enrol call (addToGroup / POST /api/subscribers) was issued by handler c
AddCount(c) == Cardinality({i \in DOMAIN cb[c].calls : cb[c].calls[i] = "add"})
Enrolled(c) == AddCount(c) > 0

\* neither handler had finished when the other was entered
Concurrent(c1, c2) == c1 # c2 /\ cb[c1].pc # "idle" /\ cb[c2].pc # "idle"
                      /\ c1 \notin cb[c2].prev /\ c2 \notin cb[c1].prev

\* handler c has read the body of a well-formed delivery
Parsed(c) == cb[c].pc # "idle" /\ cb[c].parsed /\ cb[c].req.body.hasStk

\* the step in which handler c looks its key up in the store
LookupStep(c) ==
  /\ cb[c].pc \in {"idle", "alert"}
  /\ cb'[c].pc \notin {"idle", "alert"}
  /\ cb'[c].parsed
  /\ cb'[c].req.body.hasStk

SubjectOf(e) == <<e.name, e.email, e.phone, e.industry>>

\* ------------------------------------------------------------------ claims

\* C1: two /callback deliveries with ResultCode 0 for the same key that are
\* handled concurrently do not both observe the pending record, and the
\* enrol call is not made by both.
C1_OneObserverUnderRace ==
  \A c1, c2 \in Cbs :
    (Concurrent(c1, c2) /\ cb[c1].key = cb[c2].key
       /\ cb[c1].req.body.ResultCode = 0 /\ cb[c2].req.body.ResultCode = 0)
      => /\ ~(cb[c1].obj # 0 /\ cb[c2].obj # 0)
         /\ AddCount(c1) + AddCount(c2) <= 1

\* C2: over a sequence of deliveries, whatever keys they claim (transaction
\* id or REF- reference), a record enrolled by a finished handler is not
\* enrolled again by a later one.
C2_EnrolAtMostOncePerRecord ==
  \A c1, c2 \in Cbs :
    (c1 \in cb[c2].prev /\ Enrolled(c1) /\ Enrolled(c2)) => cb[c1].obj # cb[c2].obj

\* C3: when /subscribe receives the transaction id T for a request stored
\* under reference R, the store then holds the record under T only, with the
\* subject data unchanged.
C3_RekeyRetiresOldKey ==
  [][\A r \in Reqs :
       (sub[r].pc = "sent" /\ sub'[r].pc = "done" /\ sub[r].stk = "accepted"
          /\ Has(pending, genRef(r)))
         => /\ ~Has(pending', genRef(r))
            /\ Has(pending', CheckoutID(r))
            /\ SubjectOf(heap'[pending'[CheckoutID(r)]]) = SubjectOf(sub[r].body)]_vars

\* C4: after /subscribe completed with transaction id T, the first
\* successful callback for T (no AccountReference item) enrols exactly once,
\* for that request's record and the group of its industry, and leaves no
\* record under T.
C4_CallbackForTicketEnrols ==
  \A c \in Cbs, r \in Reqs :
    (/\ variant \in {"allowlist", "logged"}
     /\ cb[c].pc = "done" /\ Parsed(c) /\ cb[c].prev = {}
     /\ r \in cb[c].subs /\ sub[r].resp.code = 200 /\ sub[r].stk = "accepted"
     /\ cb[c].req.body.ResultCode = 0
     /\ cb[c].req.body.CheckoutRequestID = CheckoutID(r)
     /\ cb[c].req.body.AccountReference = NoKey)
      => /\ AddCount(c) = 1
         /\ cb[c].obj = r
         /\ cb[c].groupId = groupIdOf(env, sub[r].body.industry.v)
         /\ ~Has(pending, CheckoutID(r))

\* C5: a successful callback that matched a pending record and has been
\* fully handled, when delivered again, finds no record, makes no enrol
\* call and is answered "No action taken".
C5_SecondDeliveryIsNoOp ==
  \A c1, c2 \in Cbs :
    (/\ variant \in {"token", "logged"}
     /\ c1 \in cb[c2].prev /\ cb[c2].pc # "idle"
     /\ cb[c1].req = cb[c2].req /\ Parsed(c1)
     /\ cb[c1].req.body.ResultCode = 0 /\ cb[c1].obj # 0)
      => /\ cb[c2].obj = 0
         /\ cb[c2].calls = <<>>
         /\ cb[c2].resp = Ack("No action taken")

C7_AnomaliesAlerted ==
  \A c \in Cbs :
    (cb[c].pc = "done" /\ Parsed(c) /\ cb[c].req.body.ResultCode = 0
       /\ (cb[c].obj = 0 \/ ~Enrolled(c)))
      => cb[c].alerts > 0

\* C8: a callback whose ResultCode is not 0 makes no downstream call.
C8_FailureNeverEnrols ==
  \A c \in Cbs : cb[c].req.body.ResultCode # 0 => cb[c].calls = <<>>

\* a non-zero callback for a key that holds a record has been answered
C8_Witness ==
  \E c \in Cbs :
    /\ cb[c].pc = "done" /\ Parsed(c) /\ cb[c].req.body.ResultCode = 1032
    /\ Has(pending, cb[c].key)

\* C9: a callback with a non-zero ResultCode that matches a pending record
\* discards it.
C9_FailureDiscardsRecord ==
  [][\A c \in Cbs :
       (LookupStep(c) /\ cb'[c].req.body.ResultCode # 0 /\ Has(pending, cb'[c].key))
         => ~Has(pending', cb'[c].key)]_vars

\* C10: every record in the pending store is eventually removed from it.
C10_PendingEventuallyReclaimed ==
  \A k \in AllKeys : Has(pending, k) ~> ~Has(pending, k)

\* C11: every response of /callback has HTTP status 200 and a body of the
\* shape {ResultCode: 0, ResultDesc: <string>}.
C11_AckAlwaysSameShape ==
  \A c \in Cbs :
    cb[c].pc = "done" => cb[c].resp.code = 200 /\ cb[c].resp.shape = "ResultCode"

\* C12: a step a handler takes on a request whose body has no
\* Body.stkCallback emits no alert, makes no downstream call and leaves the
\* pending store unchanged, whatever the origin.
C12_MalformedIsSilent ==
  [][\A c \in Cbs :
       (cb'[c] # cb[c] /\ cb'[c].parsed /\ ~cb'[c].req.body.hasStk)
         => /\ cb'[c].alerts = 0
            /\ cb'[c].calls = <<>>
            /\ pending' = pending /\ heap' = heap]_vars

\* C13: in the allowlist variant a callback whose origin (first
\* X-Forwarded-For entry, else the socket address) is outside SAFE_IPS has
\* raised an alert when its body is looked at, and is reconciled like any
\* other: answered "Processed", its record deleted when ResultCode is 0 and
\* the CheckoutRequestID holds one, the store untouched otherwise.
C13_UnsafeOriginAlertedAndReconciled ==
  [][\A c \in Cbs :
       (variant = "allowlist" /\ LookupStep(c)
          /\ (IF Len(cb'[c].req.origin.xff) > 0
                THEN cb'[c].req.origin.xff[1]
                ELSE cb'[c].req.origin.socket) \notin SAFE_IPS)
         => /\ cb'[c].alerts > 0
            /\ cb'[c].resp = Ack("Processed")
            /\ pending' =
                 IF cb'[c].req.body.ResultCode = 0
                    /\ Has(pending, cb'[c].req.body.CheckoutRequestID)
                   THEN Delete(pending, cb'[c].req.body.CheckoutRequestID)
                   ELSE pending]_vars

\* C14: in the token variant a callback whose token is absent or differs
\* from the configured secret (also when no secret is configured) is
\* answered at once, makes no downstream call and leaves the store unchanged.
C14_OnlyExactTokenReconciles ==
  [][\A c \in Cbs :
       (variant = "token" /\ cb[c].pc = "idle" /\ cb'[c].pc # "idle"
          /\ ~(/\ cb'[c].req.token # Undefined
               /\ env.CALLBACK_TOKEN # Undefined
               /\ cb'[c].req.token = env.CALLBACK_TOKEN))
         => /\ cb'[c].pc = "done"
            /\ cb'[c].obj = 0 /\ cb'[c].calls = <<>>
            /\ pending' = pending /\ heap' = heap]_vars

\* a callback with a wrong token was answered while a record was pending
C14_Witness ==
  \E c \in Cbs :
    /\ variant = "token" /\ cb[c].pc = "done"
    /\ cb[c].req.token = "wrong" /\ cb[c].resp = Ack("Invalid token")
    /\ DOMAIN pending # {}

\* C15: once a downstream call (find, remove or add) of a matched successful
\* callback has thrown, the handler has answered "Processed", the record it
\* matched is no longer in the store, and a delivery of the same callback
\* that arrives after the answer makes no downstream call.
C15_DownstreamFailureHandled ==
  \A c \in Cbs :
    (cb[c].pc = "done" /\ cb[c].failed)
      => /\ cb[c].resp = Ack("Processed")
         /\ \A k \in DOMAIN pending : pending[k] # cb[c].obj
         /\ \A d \in Cbs :
              (c \in cb[d].prev /\ cb[d].req = cb[c].req) => cb[d].calls = <<>>

\* C16: when the gateway's answer to the push request is not JSON,
\* /subscribe answers 200 "pending" without a transaction id and the store
\* is left as it was.
C16_GarbledAnswerDegrades ==
  [][\A r \in Reqs :
       (sub[r].pc = "sent" /\ sub[r].stk = "garbled" /\ sub'[r].pc = "done")
         => /\ sub'[r].resp.code = 200 /\ sub'[r].resp.status = "pending"
            /\ sub'[r].resp.ticket = NoKey
            /\ pending' = pending /\ heap' = heap]_vars

\* C17: when the gateway answered the push request with a non-success HTTP
\* status, /subscribe answers with an error status and not with "pending".
C17_RejectionSurfaced ==
  \A r \in Reqs :
    (sub[r].pc = "done" /\ sub[r].stk = "rejected")
      => sub[r].resp.code \in 400..599 /\ sub[r].resp.status # "pending"

\* C18: a /subscribe request in which name, email, phone or industry is
\* missing is answered 4xx at once (no gateway call), and no record is created.
C18_MissingFieldsRejected ==
  [][\A r \in Reqs :
       (/\ sub[r].pc = "idle" /\ sub'[r].pc # "idle"
        /\ \/ sub'[r].body.name \in {Undefined, ""}
           \/ sub'[r].body.email \in {Undefined, ""}
           \/ sub'[r].body.phone \in {Undefined, ""}
           \/ sub'[r].body.industry.t # "str"
           \/ sub'[r].body.industry.v = <<>>)
         => /\ sub'[r].pc = "done"
            /\ sub'[r].resp.code \in 400..499
            /\ pending' = pending /\ heap' = heap]_vars

\* C19: every /callback that has been received is eventually answered, also
\* when the alert sink or the mailing-list API never responds.
C19_CallbackEventuallyAcked ==
  \A c \in Cbs : (cb[c].pc # "idle") ~> (cb[c].pc = "done")

\* C20: when the lookup reported the subscriber a member of the group, the
\* remove call is the next call and an add call comes only after it; when
\* the lookup reported the subscriber absent or not a member, no remove call
\* is made.
C20_RemoveBeforeAdd ==
  \A c \in Cbs :
    /\ cb[c].found = "member"
         => /\ Len(cb[c].calls) >= 2 /\ cb[c].calls[2] = "remove"
            /\ \A i \in DOMAIN cb[c].calls : cb[c].calls[i] = "add" => i = 3
    /\ cb[c].found \in {"absent", "other"}
         => \A i \in DOMAIN cb[c].calls : cb[c].calls[i] # "remove"

\* a handler found a member, removed and then added; another found a
\* subscriber outside the group and only added
C20_Witness ==
  \E c, d \in Cbs :
    /\ cb[c].pc = "done" /\ cb[c].found = "member"
    /\ cb[c].calls = <<"find", "remove", "add">>
    /\ cb[d].pc = "done" /\ cb[d].found = "other"
    /\ cb[d].calls = <<"find", "add">>

\* C21: a callback with ResultCode 0 and CheckoutRequestID T that is looked
\* up at any time after the gateway issued T for a request, also before
\* /subscribe has resumed, and whose record no handler has taken before, is
\* matched to that request's record and starts its enrolment.
C21_NoInterleavingLosesPayment ==
  [][\A c \in Cbs, r \in Reqs :
       (/\ variant \in {"token", "allowlist"}
        /\ LookupStep(c)
        /\ sub[r].pc \in {"sent", "done"} /\ sub[r].stk = "accepted"
        /\ cb'[c].req.body.ResultCode = 0
        /\ cb'[c].req.body.CheckoutRequestID = CheckoutID(r)
        /\ \A d \in Cbs : cb[d].obj # r)
         => /\ cb'[c].obj = r
            /\ cb'[c].calls # <<>>]_vars

\* C22: when a handler that found a pending record for a callback with
\* ResultCode 0 responds, that record is in the store under no key,
\* whatever the record holds and whatever the acknowledgment.
C22_MatchedSuccessLeavesNoRecord ==
  [][\A c \in Cbs :
       (/\ cb[c].pc # "done" /\ cb'[c].pc = "done"
        /\ cb'[c].req.body.ResultCode = 0 /\ cb'[c].obj # 0)
         => \A k \in DOMAIN pending' : pending'[k] # cb'[c].obj]_vars

\* C23: when /subscribe answers with an error status, the store holds no
\* record created by that request.
C23_ErrorAnswerLeavesNoRecord ==
  [][\A r \in Reqs :
       (sub[r].pc # "done" /\ sub'[r].pc = "done" /\ sub'[r].resp.code \in 400..599)
         => \A k \in DOMAIN pending' : pending'[k] # r]_vars

====
